---- MODULE Spec2Model ----
(***************************************************************************)
(* pg_summarize: the SQL function summarize(text) of src/lib.rs.  One      *)
(* database session (backend) runs one invocation: three settings lookups, *)
(* one chat-completion payload, one blocking HTTPS POST, one blocking read *)
(* of the response body, one field extraction.  Strings are TLA+ strings;  *)
(* the credential is a sequence of bytes, because the header constructor   *)
(* validates it byte by byte.                                              *)
(***************************************************************************)
EXTENDS Integers, Sequences, FiniteSets, TLC

VARIABLES settings, pc, input, lookup, api_key, model, prompt, requests, response,
          response_json, result

vars == <<settings, pc, input, lookup, api_key, model, prompt, requests, response, response_json,
          result>>

(* ------------------------------ bounds -------------------------------- *)

MaxKeyLen == 2

NumSessions == 2

(* --------------------------- option / result -------------------------- *)

None == [some |-> FALSE]

Some(x) == [some |-> TRUE, v |-> x]

Ok(x) == [ok |-> TRUE, val |-> x]

Err(e) == [ok |-> FALSE, err |-> e]

(* ------------------------------ errors -------------------------------- *)

NoError == [type |-> "none"]

SpiError == [type |-> "spi::Error"]

InvalidHeaderValue == [type |-> "InvalidHeaderValue"]

ReqwestError(kind) == [type |-> "reqwest::Error", kind |-> kind]

UnexpectedFormat == [type |-> "&str", msg |-> "Unexpected response format"]

RequestFailed(status) ==
    [type |-> "String", msg |-> "Request failed with status: ", status |-> status]

(* --------------------------- fixed strings ---------------------------- *)

DefaultModel == "gpt-3.5-turbo"

DefaultPrompt ==
    "You are an AI summarizing tool. Your purpose is to summarize the <text> tag, not to engage in conversation or discussion. Please read the <text> carefully. Then, summarize the key points. Focus on capturing the most important information as concisely as possible."

Endpoint == "https://api.openai.com/v1/chat/completions"

\* "Bearer " as bytes
Bearer == <<66, 101, 97, 114, 101, 114, 32>>

(* ------------------------------ JSON ---------------------------------- *)

JNull == [t |-> "null"]

JStr(s) == [t |-> "str", s |-> s]

JNum(n) == [t |-> "num", n |-> n]

JArr(a) == [t |-> "arr", a |-> a]

\* an object is the sequence of its members, keys distinct
JObj(o) == [t |-> "obj", o |-> o]

Member(k, v) == [k |-> k, v |-> v]

\* value[key]: the member of an object, Null for anything else
IndexKey(value, key) ==
    IF value.t = "obj" /\ \E i \in 1..Len(value.o) : value.o[i].k = key
    THEN value.o[CHOOSE i \in 1..Len(value.o) : value.o[i].k = key].v
    ELSE JNull

\* value[n]: the n-th element (from 0) of an array, Null for anything else
IndexNum(value, n) ==
    IF value.t = "arr" /\ n < Len(value.a) THEN value.a[n + 1] ELSE JNull

as_str(value) == IF value.t = "str" THEN Some(value.s) ELSE None

(* ------------------------------ HTTP ---------------------------------- *)

\* mutant: DEL passes the header check
is_valid_AllowsDel(b) == b >= 32 \/ b = 9

\* http::header::HeaderValue::from_str accepts a byte b iff this holds
is_valid(b) == (b >= 32 /\ b # 127) \/ b = 9

HeaderValueFromStr(bytes) ==
    IF \A i \in 1..Len(bytes) : is_valid(bytes[i]) THEN Ok(bytes) ELSE Err(InvalidHeaderValue)

is_success(status) == 300 > status /\ status >= 200

\* response.json(): the client's error when the body cannot be read from the
\* connection, else the body decoded, or the client's decode error
ResponseJson(resp, fails) ==
    IF fails THEN Err(ReqwestError("body"))
    ELSE IF resp.body.json THEN Ok(resp.body.value)
    ELSE Err(ReqwestError("decode"))

(* --------------------------- make_api_call ---------------------------- *)

\* mutant: the closing tag is written as an opening tag
UserContent_Unclosed(text) == "<text>" \o text \o "<text>"

UserContent(text) == "<text>" \o text \o "</text>"

RequestBody(text, m, p) ==
    [model |-> m,
     messages |-> << [role |-> "system", content |-> p],
                     [role |-> "user", content |-> UserContent(text)] >>]

AuthorizationValue(key) == HeaderValueFromStr(Bearer \o key)

Request(text, key, m, p) ==
    [method |-> "POST",
     url |-> Endpoint,
     headers |-> [content_type |-> "application/json",
                  authorization |-> AuthorizationValue(key).val],
     json |-> RequestBody(text, m, p)]

\* mutant: a missing summary becomes the empty string
ExtractSummary_MissingAsEmpty(json) ==
    IF ~json.ok THEN Err(json.err)
    ELSE LET summary == as_str(IndexKey(IndexKey(IndexNum(IndexKey(
                            json.val, "choices"), 0), "message"), "content")) IN
         IF summary.some THEN Ok(summary.v) ELSE Ok("")

\* mutant: the last choice is read instead of the first
ExtractSummary_LastChoice(json) ==
    IF ~json.ok THEN Err(json.err)
    ELSE LET choices == IndexKey(json.val, "choices")
             last == IF choices.t = "arr" /\ Len(choices.a) > 0 THEN Len(choices.a) - 1 ELSE 0
             summary == as_str(IndexKey(IndexKey(IndexNum(choices, last),
                            "message"), "content")) IN
         IF summary.some THEN Ok(summary.v) ELSE Err(UnexpectedFormat)

\* lines 78-83: what make_api_call returns once response.json() has returned
\* json (the `?` first, then the field extraction)
ExtractSummary(json) ==
    IF ~json.ok THEN Err(json.err)
    ELSE LET summary == as_str(IndexKey(IndexKey(IndexNum(IndexKey(
                            json.val, "choices"), 0), "message"), "content")) IN
         IF summary.some THEN Ok(summary.v) ELSE Err(UnexpectedFormat)

(* ----------------------------- summarize ------------------------------ *)

NoResult == [kind |-> "none"]

Returned(s) == [kind |-> "return", value |-> s]

Panic(msg, e) == [kind |-> "panic", msg |-> msg, err |-> e]

\* mutant: an error is swallowed and the empty string returned
SummarizeOutcome_EmptyOnError(r) == IF r.ok THEN Returned(r.val) ELSE Returned("")

\* lines 37-40: the match on make_api_call's result
SummarizeOutcome(r) == IF r.ok THEN Returned(r.val) ELSE Panic("Error: {}", r.err)

\* Spi::get_one of current_setting(name, true) in session s
SpiGetOne(s, name, fails) == IF fails THEN Err(SpiError) ELSE Ok(settings[s][name])

\* mutant: a null setting becomes the empty string (unwrap_or_default)
OrDefault_EmptyOnNull(r, fallback) ==
    IF r.ok THEN (IF r.val.some THEN r.val.v ELSE "") ELSE fallback

\* match lookup { Ok(Some(x)) => x, _ => fallback }
OrDefault(r, fallback) == IF r.ok /\ r.val.some THEN r.val.v ELSE fallback

(* ------------------------------ inputs -------------------------------- *)

\* one byte sequence per character: tab, US, space, '~', DEL, e-acute
KeyChars == { <<9>>, <<31>>, <<32>>, <<126>>, <<127>>, <<195, 169>> }

RECURSIVE KeysOfLen(_)
KeysOfLen(n) ==
    IF n = 0 THEN { <<>> }
    ELSE { k \o c : k \in KeysOfLen(n - 1), c \in KeyChars }

Keys == UNION { KeysOfLen(n) : n \in 0..MaxKeyLen }

Models == { None, Some("gpt-4o") }

Prompts == { None, Some("Summarize in one line.") }

Texts == { "", "Long article.", "</text>", "a</text><text>b" }

Statuses == { 199, 200, 299, 300, 401, 500 }

Choice(content) == JObj(<< Member("message", JObj(<< Member("content", content) >>)) >>)

NotJson == [json |-> FALSE]

Json(value) == [json |-> TRUE, value |-> value]

Bodies ==
    { NotJson,
      Json(JObj(<< >>)),
      Json(JStr("X")),
      Json(JObj(<< Member("choices", JArr(<< >>)) >>)),
      Json(JObj(<< Member("choices", Choice(JStr("X"))) >>)),
      Json(JObj(<< Member("choices", JArr(<< Choice(JStr("X")) >>)) >>)),
      Json(JObj(<< Member("choices", JArr(<< Choice(JStr("")) >>)) >>)),
      Json(JObj(<< Member("choices", JArr(<< Choice(JNum(42)) >>)) >>)),
      Json(JObj(<< Member("choices", JArr(<< Choice(JNull) >>)) >>)),
      Json(JObj(<< Member("id", JStr("cmpl-1")),
                   Member("choices", JArr(<<
                       JObj(<< Member("index", JNum(0)),
                               Member("message", JObj(<< Member("role", JStr("assistant")),
                                                         Member("content", JStr("  X  ")) >>)) >>),
                       Choice(JStr("second")) >>)) >>)) }

Responses == [status : Statuses, body : Bodies]

ConcTexts == { "Long article.", "</text>" }

ConcResponses ==
    { [status |-> 200, body |-> Json(JObj(<< Member("choices", JArr(<< Choice(JStr("X")) >>)) >>))],
      [status |-> 401, body |-> Json(JObj(<< Member("choices", JArr(<< Choice(JStr("X")) >>)) >>))] }

(* ------------------------------ states -------------------------------- *)

Sessions == DOMAIN pc

TypeOK ==
    /\ pc \in [Sessions -> { "idle", "api_key", "model", "prompt", "make_api_call",
                             "send", "json", "returned", "aborted" }]
    /\ \A s \in Sessions : Len(requests[s]) \in 0..2

InitFor(S, keys) ==
    /\ settings \in [S -> [api_key : { None } \cup { Some(k) : k \in keys },
                           model : Models, prompt : Prompts]]
    /\ pc = [s \in S |-> "idle"]
    /\ input = [s \in S |-> None]
    /\ lookup = [s \in S |-> [api_key |-> None, model |-> None, prompt |-> None]]
    /\ api_key = [s \in S |-> None]
    /\ model = [s \in S |-> None]
    /\ prompt = [s \in S |-> None]
    /\ requests = [s \in S |-> << >>]
    /\ response = [s \in S |-> None]
    /\ response_json = [s \in S |-> None]
    /\ result = [s \in S |-> NoResult]

Init == InitFor({ 1 }, Keys)

InitConc ==
    /\ InitFor(1..NumSessions, { <<126>> })
    /\ \A s \in 1..NumSessions : settings[s].prompt = None

(* ------------------------------ actions ------------------------------- *)

\* the host calls summarize(text) in session s
Call(s, text) ==
    /\ pc[s] = "idle"
    /\ input' = [input EXCEPT ![s] = Some(text)]
    /\ pc' = [pc EXCEPT ![s] = "api_key"]
    /\ UNCHANGED <<settings, lookup, api_key, model, prompt, requests, response, response_json, result>>

\* mutant: a null api_key is taken as the empty key
GetApiKey_NullAsEmpty(s, fails) ==
    /\ pc[s] = "api_key"
    /\ lookup' = [lookup EXCEPT ![s].api_key = Some(SpiGetOne(s, "api_key", fails))]
    /\ LET r == SpiGetOne(s, "api_key", fails) IN
       IF ~r.ok
       THEN /\ result' = [result EXCEPT ![s] =
                    Panic("failed to get 'pg_summarizer.api_key' setting", r.err)]
            /\ pc' = [pc EXCEPT ![s] = "aborted"]
            /\ UNCHANGED api_key
       ELSE /\ api_key' = [api_key EXCEPT ![s] = IF r.val.some THEN r.val ELSE Some(<< >>)]
            /\ pc' = [pc EXCEPT ![s] = "model"]
            /\ UNCHANGED result
    /\ UNCHANGED <<settings, input, model, prompt, requests, response, response_json>>

\* lines 15-17
GetApiKey(s, fails) ==
    /\ pc[s] = "api_key"
    /\ lookup' = [lookup EXCEPT ![s].api_key = Some(SpiGetOne(s, "api_key", fails))]
    /\ LET r == SpiGetOne(s, "api_key", fails) IN
       IF ~r.ok
       THEN /\ result' = [result EXCEPT ![s] =
                    Panic("failed to get 'pg_summarizer.api_key' setting", r.err)]
            /\ pc' = [pc EXCEPT ![s] = "aborted"]
            /\ UNCHANGED api_key
       ELSE IF ~r.val.some
       THEN /\ result' = [result EXCEPT ![s] =
                    Panic("got null for 'pg_summarizer.api_key' setting", NoError)]
            /\ pc' = [pc EXCEPT ![s] = "aborted"]
            /\ UNCHANGED api_key
       ELSE /\ api_key' = [api_key EXCEPT ![s] = r.val]
            /\ pc' = [pc EXCEPT ![s] = "model"]
            /\ UNCHANGED result
    /\ UNCHANGED <<settings, input, model, prompt, requests, response, response_json>>

\* mutant: the model is read from one place shared by all sessions
GetModel_Shared(s, fails) ==
    /\ pc[s] = "model"
    /\ lookup' = [lookup EXCEPT ![s].model = Some(SpiGetOne(1, "model", fails))]
    /\ model' = [model EXCEPT ![s] = Some(OrDefault(SpiGetOne(1, "model", fails), DefaultModel))]
    /\ pc' = [pc EXCEPT ![s] = "prompt"]
    /\ UNCHANGED <<settings, input, api_key, prompt, requests, response, response_json, result>>

\* lines 19-22
GetModel(s, fails) ==
    /\ pc[s] = "model"
    /\ lookup' = [lookup EXCEPT ![s].model = Some(SpiGetOne(s, "model", fails))]
    /\ model' = [model EXCEPT ![s] = Some(OrDefault(SpiGetOne(s, "model", fails), DefaultModel))]
    /\ pc' = [pc EXCEPT ![s] = "prompt"]
    /\ UNCHANGED <<settings, input, api_key, prompt, requests, response, response_json, result>>

\* lines 24-35
GetPrompt(s, fails) ==
    /\ pc[s] = "prompt"
    /\ lookup' = [lookup EXCEPT ![s].prompt = Some(SpiGetOne(s, "prompt", fails))]
    /\ prompt' = [prompt EXCEPT ![s] =
            Some(OrDefault(SpiGetOne(s, "prompt", fails), DefaultPrompt))]
    /\ pc' = [pc EXCEPT ![s] = "make_api_call"]
    /\ UNCHANGED <<settings, input, api_key, model, requests, response, response_json, result>>

\* lines 49-75, up to the blocking send: the payload, the headers, the POST
MakeApiCall(s) ==
    /\ pc[s] = "make_api_call"
    /\ IF AuthorizationValue(api_key[s].v).ok
       THEN /\ requests' = [requests EXCEPT ![s] =
                    Append(@, Request(input[s].v, api_key[s].v, model[s].v, prompt[s].v))]
            /\ pc' = [pc EXCEPT ![s] = "send"]
            /\ UNCHANGED result
       ELSE /\ result' = [result EXCEPT ![s] =
                    SummarizeOutcome(Err(AuthorizationValue(api_key[s].v).err))]
            /\ pc' = [pc EXCEPT ![s] = "aborted"]
            /\ UNCHANGED requests
    /\ UNCHANGED <<settings, input, lookup, api_key, model, prompt, response, response_json>>

\* mutant: a failed send is tried again
SendFails_Retry(s) ==
    /\ pc[s] = "send"
    /\ pc' = [pc EXCEPT ![s] = "make_api_call"]
    /\ UNCHANGED <<settings, input, lookup, api_key, model, prompt, requests, response, response_json, result>>

\* line 75: send() returns the transport's error
SendFails(s) ==
    /\ pc[s] = "send"
    /\ result' = [result EXCEPT ![s] = SummarizeOutcome(Err(ReqwestError("request")))]
    /\ pc' = [pc EXCEPT ![s] = "aborted"]
    /\ UNCHANGED <<settings, input, lookup, api_key, model, prompt, requests, response, response_json>>

\* mutant: the body is read whatever the status is
Receive_BodyFirst(s, resp) ==
    /\ pc[s] = "send"
    /\ response' = [response EXCEPT ![s] = Some(resp)]
    /\ pc' = [pc EXCEPT ![s] = "json"]
    /\ UNCHANGED <<settings, input, lookup, api_key, model, prompt, requests, response_json,
                   result>>

\* lines 75-77 and 84-86: send() returns once the response's head is there;
\* its body (resp.body) is still on the connection.  A status that is not a
\* success ends the call here (and lines 37-40 the invocation)
Receive(s, resp) ==
    /\ pc[s] = "send"
    /\ response' = [response EXCEPT ![s] = Some(resp)]
    /\ IF is_success(resp.status)
       THEN /\ pc' = [pc EXCEPT ![s] = "json"]
            /\ UNCHANGED result
       ELSE /\ result' = [result EXCEPT ![s] = SummarizeOutcome(Err(RequestFailed(resp.status)))]
            /\ pc' = [pc EXCEPT ![s] = "aborted"]
    /\ UNCHANGED <<settings, input, lookup, api_key, model, prompt, requests, response_json>>

\* lines 78-83 and 37-40: response.json() blocks until the body is read (or
\* the read fails), then the summary is extracted
ReadBody(s, fails) ==
    /\ pc[s] = "json"
    /\ LET json == ResponseJson(response[s].v, fails) IN
       /\ response_json' = [response_json EXCEPT ![s] = Some(json)]
       /\ result' = [result EXCEPT ![s] = SummarizeOutcome(ExtractSummary(json))]
       /\ pc' = [pc EXCEPT ![s] = IF ExtractSummary(json).ok THEN "returned" ELSE "aborted"]
    /\ UNCHANGED <<settings, input, lookup, api_key, model, prompt, requests, response>>

Next ==
    \/ \E s \in Sessions, text \in Texts : Call(s, text)
    \/ \E s \in Sessions, fails \in BOOLEAN : GetApiKey(s, fails)
    \/ \E s \in Sessions, fails \in BOOLEAN : GetModel(s, fails)
    \/ \E s \in Sessions, fails \in BOOLEAN : GetPrompt(s, fails)
    \/ \E s \in Sessions : MakeApiCall(s)
    \/ \E s \in Sessions : SendFails(s)
    \/ \E s \in Sessions, resp \in Responses : Receive(s, resp)
    \/ \E s \in Sessions, fails \in BOOLEAN : ReadBody(s, fails)

Spec == Init /\ [][Next]_vars

\* several sessions at once, over fewer texts and responses; of the three
\* lookups only the model lookup is let fail
NextConc ==
    \/ \E s \in Sessions, text \in ConcTexts : Call(s, text)
    \/ \E s \in Sessions : GetApiKey(s, FALSE)
    \/ \E s \in Sessions, fails \in BOOLEAN : GetModel(s, fails)
    \/ \E s \in Sessions : GetPrompt(s, FALSE)
    \/ \E s \in Sessions : MakeApiCall(s)
    \/ \E s \in Sessions : SendFails(s)
    \/ \E s \in Sessions, resp \in ConcResponses : Receive(s, resp)
    \/ \E s \in Sessions, fails \in BOOLEAN : ReadBody(s, fails)

SpecConc == InitConc /\ [][NextConc]_vars

(* ------------------------ the response's summary ----------------------- *)

\* the values under key k of an object (none for any other value)
MembersNamed(value, k) ==
    IF value.t = "obj"
    THEN { value.o[i].v : i \in { j \in 1..Len(value.o) : value.o[j].k = k } }
    ELSE { }

\* the first element of an array (none for an empty array or any other value)
FirstOf(value) == IF value.t = "arr" /\ Len(value.a) > 0 THEN { value.a[1] } ELSE { }

\* the strings at choices[0].message.content of a body: one string or none
ContentStrings(body) ==
    IF ~body.json THEN { }
    ELSE LET choices == MembersNamed(body.value, "choices")
             first == UNION { FirstOf(c) : c \in choices }
             message == UNION { MembersNamed(f, "message") : f \in first }
             content == UNION { MembersNamed(m, "content") : m \in message }
         IN { c.s : c \in { x \in content : x.t = "str" } }

SuccessStatus(resp) == resp.status \in 200..299

Finished(s) == pc[s] \in { "returned", "aborted" }

\* response.json() has returned and the body had been read in full
BodyArrived(s) ==
    /\ response_json[s].some
    /\ response_json[s].v # [ok |-> FALSE, err |-> [type |-> "reqwest::Error", kind |-> "body"]]

\* every byte of "Bearer " + key may stand in a header value
Encodable(key) == \A i \in 1..Len(key) : key[i] = 9 \/ (key[i] >= 32 /\ key[i] # 127)

(* ------------------------------- claims -------------------------------- *)

\* C1: when the api_key setting is null, the invocation never gets past the
\* api_key lookup: it sends no request, returns nothing, and once the lookup
\* has run it has aborted.
C1_NoRequestWithoutApiKey ==
    \A s \in Sessions :
        settings[s].api_key = None =>
            /\ requests[s] = << >>
            /\ response[s] = None
            /\ pc[s] \in { "idle", "api_key", "aborted" }
            /\ result[s].kind # "return"
            /\ lookup[s].api_key.some => pc[s] = "aborted" /\ result[s].kind = "panic"

C1_Witness ==
    \E s \in Sessions :
        /\ settings[s].api_key = None
        /\ settings[s].model # None
        /\ input[s] = Some("Long article.")
        /\ pc[s] = "aborted"
        /\ result[s] = Panic("got null for 'pg_summarizer.api_key' setting", NoError)

\* C2: a response whose status is outside 200..299 makes the call fail with
\* the "request failed" error carrying that status, whatever its body is;
\* the body is never read.
C2_StatusCheckedFirst ==
    \A s \in Sessions :
        (response[s].some /\ ~SuccessStatus(response[s].v)) =>
            /\ pc[s] = "aborted"
            /\ response_json[s] = None
            /\ result[s] = Panic("Error: {}",
                   [type |-> "String", msg |-> "Request failed with status: ",
                    status |-> response[s].v.status])

C2_Witness ==
    \E s \in Sessions :
        /\ response[s].some
        /\ response[s].v.status = 401
        /\ ContentStrings(response[s].v.body) = { "X" }
        /\ result[s].kind = "panic"
        /\ result[s].err.status = 401

\* C3 as stated: a success response whose body, once read, is not JSON or
\* has no string at choices[0].message.content, fails with "Unexpected
\* response format".
C3_Original ==
    \A s \in Sessions :
        (response[s].some /\ SuccessStatus(response[s].v) /\ BodyArrived(s)
            /\ ContentStrings(response[s].v.body) = { }) =>
            /\ pc[s] = "aborted"
            /\ result[s] = Panic("Error: {}",
                   [type |-> "&str", msg |-> "Unexpected response format"])

\* C3 amended: such a response always aborts the call without a summary; the
\* error is "Unexpected response format" when the body is JSON without the
\* string, and the HTTP client's decode error when the body is not JSON.
C3_FormatErrors ==
    \A s \in Sessions :
        (response[s].some /\ SuccessStatus(response[s].v) /\ BodyArrived(s)
            /\ ContentStrings(response[s].v.body) = { }) =>
            /\ pc[s] = "aborted"
            /\ result[s].kind = "panic"
            /\ result[s].msg = "Error: {}"
            /\ response[s].v.body.json =>
                   result[s].err = [type |-> "&str", msg |-> "Unexpected response format"]
            /\ ~response[s].v.body.json =>
                   result[s].err = [type |-> "reqwest::Error", kind |-> "decode"]

C3_Witness ==
    \E s \in Sessions :
        /\ response[s].some
        /\ response[s].v.status = 200
        /\ response[s].v.body = Json(JObj(<< >>))
        /\ result[s].kind = "panic"
        /\ result[s].err.type = "&str"

\* C4: a success response whose body, once read, has a string X at
\* choices[0].message.content makes
\* summarize return exactly X.
C4_SummaryVerbatim ==
    \A s \in Sessions :
        (response[s].some /\ SuccessStatus(response[s].v) /\ BodyArrived(s)) =>
            \A X \in ContentStrings(response[s].v.body) :
                pc[s] = "returned" /\ result[s] = [kind |-> "return", value |-> X]

C4_Witness ==
    \E s \in Sessions :
        /\ response[s].some
        /\ response[s].v.status = 299
        /\ response[s].v.body.json
        /\ MembersNamed(response[s].v.body.value, "id") # { }
        /\ input[s] = Some("</text>")
        /\ result[s] = [kind |-> "return", value |-> "  X  "]

\* C5: every request's payload has two messages, system then user, and the
\* user content is "<text>" + the input text + "</text>", nothing escaped.
C5_UserTextWrapped ==
    \A s \in Sessions :
        \A i \in 1..Len(requests[s]) :
            LET messages == requests[s][i].json.messages IN
            /\ Len(messages) = 2
            /\ messages[1].role = "system"
            /\ messages[2].role = "user"
            /\ messages[2].content = "<text>" \o input[s].v \o "</text>"

C5_Witness ==
    \E s \in Sessions :
        /\ input[s] = Some("a</text><text>b")
        /\ Len(requests[s]) = 1
        /\ requests[s][1].json.messages[2].content = "<text>a</text><text>b</text>"

\* C6: a model or prompt lookup never aborts the invocation; the payload
\* carries the fallback when the setting is null or its lookup failed, and
\* the setting's value otherwise, each setting on its own.
C6_OptionalSettingsDefault ==
    \A s \in Sessions :
        /\ (lookup[s].model.some /\ ~lookup[s].prompt.some) => pc[s] = "prompt"
        /\ (lookup[s].prompt.some /\ requests[s] = << >>) =>
               (pc[s] = "make_api_call" \/ (pc[s] = "aborted" /\ ~Encodable(api_key[s].v)))
        /\ \A i \in 1..Len(requests[s]) :
               /\ requests[s][i].json.model =
                      IF lookup[s].model.v.ok /\ settings[s].model.some
                      THEN settings[s].model.v
                      ELSE "gpt-3.5-turbo"
               /\ requests[s][i].json.messages[1].content =
                      IF lookup[s].prompt.v.ok /\ settings[s].prompt.some
                      THEN settings[s].prompt.v
                      ELSE DefaultPrompt

C6_Witness ==
    \E s \in Sessions :
        /\ settings[s].model = Some("gpt-4o")
        /\ settings[s].prompt = Some("Summarize in one line.")
        /\ lookup[s].model.some
        /\ lookup[s].prompt.some
        /\ ~lookup[s].model.v.ok
        /\ lookup[s].prompt.v.ok
        /\ Len(requests[s]) = 1
        /\ requests[s][1].json.model = "gpt-3.5-turbo"
        /\ requests[s][1].json.messages[1].content = "Summarize in one line."

\* C7: an invocation sends at most one request; a finished invocation sent
\* exactly one if its api_key was resolved and encodable, none otherwise;
\* every request is a POST to the fixed endpoint with the two headers.
C7_ExactlyOnePost ==
    \A s \in Sessions :
        /\ Len(requests[s]) <= 1
        /\ Finished(s) =>
               Len(requests[s]) = IF api_key[s].some /\ Encodable(api_key[s].v) THEN 1 ELSE 0
        /\ \A i \in 1..Len(requests[s]) :
               /\ requests[s][i].method = "POST"
               /\ requests[s][i].url = "https://api.openai.com/v1/chat/completions"
               /\ requests[s][i].headers.content_type = "application/json"
               /\ requests[s][i].headers.authorization =
                      <<66, 101, 97, 114, 101, 114, 32>> \o settings[s].api_key.v

C7_Witness ==
    \E s \in Sessions :
        /\ pc[s] = "aborted"
        /\ result[s].err = ReqwestError("request")
        /\ Len(requests[s]) = 1
        /\ requests[s][1].headers.authorization =
               <<66, 101, 97, 114, 101, 114, 32, 195, 169, 9>>

\* C8: a finished invocation returned a string iff its response had a success
\* status and a string at choices[0].message.content; otherwise it aborted
\* and returned no value.
C8_ReturnsIffSummary ==
    \A s \in Sessions :
        LET summary == response[s].some /\ SuccessStatus(response[s].v) /\ BodyArrived(s)
                           /\ ContentStrings(response[s].v.body) # { } IN
        /\ result[s].kind = "return" => (Finished(s) /\ summary)
        /\ Finished(s) =>
               IF summary
               THEN pc[s] = "returned" /\ result[s].kind = "return"
               ELSE pc[s] = "aborted" /\ result[s].kind = "panic"

C8_Witness ==
    \E s \in Sessions :
        /\ pc[s] = "aborted"
        /\ response[s].some
        /\ response[s].v.status = 200
        /\ response[s].v.body = NotJson
        /\ result[s] = Panic("Error: {}", ReqwestError("decode"))

\* C9: an api_key that cannot stand in a header value aborts the call with
\* the header-construction error before any request; a failed send aborts it
\* with the transport's error and no response is ever interpreted.
C9_HeaderAndTransportErrors ==
    \A s \in Sessions :
        /\ (api_key[s].some /\ ~Encodable(api_key[s].v)
                /\ pc[s] \notin { "model", "prompt", "make_api_call" }) =>
               /\ pc[s] = "aborted"
               /\ result[s] = Panic("Error: {}", [type |-> "InvalidHeaderValue"])
               /\ requests[s] = << >>
               /\ response[s] = None
        /\ (Finished(s) /\ Len(requests[s]) = 1 /\ response[s] = None) =>
               /\ pc[s] = "aborted"
               /\ result[s] = Panic("Error: {}", [type |-> "reqwest::Error", kind |-> "request"])

C9_Witness ==
    \E s \in Sessions :
        /\ api_key[s] = Some(<<126, 127>>)
        /\ pc[s] = "aborted"
        /\ result[s].err = InvalidHeaderValue
        /\ requests[s] = << >>

\* what an invocation of session s has become, from its own inputs alone
OwnRequest(s) ==
    [method |-> "POST",
     url |-> "https://api.openai.com/v1/chat/completions",
     headers |-> [content_type |-> "application/json",
                  authorization |-> <<66, 101, 97, 114, 101, 114, 32>> \o settings[s].api_key.v],
     json |-> [model |-> IF lookup[s].model.v.ok /\ settings[s].model.some
                         THEN settings[s].model.v ELSE "gpt-3.5-turbo",
               messages |-> << [role |-> "system",
                                content |-> IF lookup[s].prompt.v.ok /\ settings[s].prompt.some
                                            THEN settings[s].prompt.v ELSE DefaultPrompt],
                               [role |-> "user",
                                content |-> "<text>" \o input[s].v \o "</text>"] >>]]

\* the variables of session s
Own(s) == <<pc[s], input[s], lookup[s], api_key[s], model[s], prompt[s],
            requests[s], response[s], response_json[s], result[s]>>

\* C10: under every interleaving, a session's request is determined by its
\* own input and settings and its outcome by its own response; no step
\* writes the settings store, and a step changes one session's state only.
C10_SessionsIndependent ==
    /\ [](\A s \in Sessions :
            /\ \A i \in 1..Len(requests[s]) : requests[s][i] = OwnRequest(s)
            /\ result[s].kind = "return" =>
                   (response[s].some /\ result[s].value \in ContentStrings(response[s].v.body)))
    /\ [][ /\ settings' = settings
           /\ \E s \in Sessions : \A t \in Sessions \ { s } : Own(t)' = Own(t) ]_vars

C10_Witness ==
    /\ settings[1].model = Some("gpt-4o")
    /\ settings[2].model = None
    /\ input[1] = Some("</text>")
    /\ input[2] = Some("Long article.")
    /\ pc[1] = "json"
    /\ response[1].some
    /\ response_json[1] = None
    /\ requests[1][1].json.model = "gpt-4o"
    /\ pc[2] = "returned"
    /\ requests[2][1].json.model = "gpt-3.5-turbo"
    /\ result[2].value = "X"

====
